---- MODULE Spec2Model ----
(***************************************************************************)
(* Model of the QuickBooks Online OAuth helper (src/src/auth/auth_demo.py):*)
(* the key file, the encrypted bundle file, the QboAuth instance of each   *)
(* process, the token endpoint and the user at the paste prompt.           *)
(***************************************************************************)
EXTENDS Integers, FiniteSets, Sequences, TLC

VARIABLES
    keyFile,        \* content of KEY_FILE: NoKey, or the key stored in it
    tokenFile,      \* content of TOKEN_FILE: a File record
    nextKey,        \* the next key Fernet.generate_key() draws (keys are never reused)
    issued,         \* number of HTTP 200 token responses the endpoint has given
    pc,             \* per process: position in the program
    attrs,          \* per process: names of the attributes set on the QboAuth instance
    access_token,   \* per process: self.access_token
    realm_id,       \* per process: self.realm_id
    fernet,         \* per process: key held by self._fernet
    local,          \* per process: locals of the running call (data, realm_id, encrypted_refresh, request in flight)
    result,         \* per process: how the last get_access_token() call ended
    realmResult,    \* per process: how the last get_realm_id() call ended
    hist,           \* per process: record of what the running/last get_access_token() call did
    instances,      \* per process: the keys loaded by the QboAuth instances constructed, in order
    written,        \* TOKEN_FILE as the program last left it (written or removed)
    validRT,        \* the refresh token the endpoint issued last (None: none issued)
    fetch           \* the running fetch_all_inventory_with_sku() call and the item list it queries

vars == <<keyFile, tokenFile, nextKey, issued, pc, attrs, access_token, realm_id,
          fernet, local, result, realmResult, hist, instances, written, validRT, fetch>>

----------------------------------------------------------------------------
(* Bounds of the model *)

\* calls start only while the endpoint has issued at most MaxIssued - 2 responses
MaxIssued == 4
\* number of keys Fernet.generate_key() may draw
MaxKeys == 2
\* realm ids a redirect URL may carry
MaxRealms == 2

----------------------------------------------------------------------------
(* Values *)

\* Python None (also: a key absent from a JSON object / query string)
None == 0
\* KEY_FILE does not exist
NoKey == 0

Procs == {"main"}
Realms == 1..MaxRealms

\* HTTP statuses the token endpoint may answer with, other than 200
ErrStatuses == {400, 401}

\* TOKEN_FILE does not exist
AbsentFile == [kind |-> "absent"]
\* TOKEN_FILE exists with no content: open(TOKEN_FILE, "w") before json.dump's data is flushed
EmptyFile == [kind |-> "empty"]
\* TOKEN_FILE holds the JSON object {"refresh_token": ct, "realm_id": r}
BundleFile_NoRealm(ct, r) == [kind |-> "bundle", refresh_token |-> ct, realm_id |-> None]
BundleFile(ct, r) == [kind |-> "bundle", refresh_token |-> ct, realm_id |-> r]

\* no ciphertext
NoCipher == [key |-> NoKey, pt |-> None, intact |-> FALSE]

\* self._fernet.encrypt(pt.encode()).decode(): an authenticated ciphertext of pt under key k
Encrypt(k, pt) == [key |-> k, pt |-> pt, intact |-> TRUE]

\* whether self._fernet.decrypt(ct) succeeds under key k (else it raises InvalidToken)
DecryptOk(k, ct) == ct.intact /\ ct.key = k

\* self._fernet.decrypt(ct.encode()).decode() when it succeeds
Decrypt(k, ct) == ct.pt

\* the responses of the token endpoint
Resp(status, at, rt) == [status |-> status, access_token |-> at, refresh_token |-> rt]
NoResp == Resp(0, None, None)

\* requests in flight to the token endpoint
NoReq == [grant_type |-> "none", refresh_token |-> None, code |-> None]
RefreshReq(rt) == [grant_type |-> "refresh_token", refresh_token |-> rt, code |-> None]
CodeReq(code) == [grant_type |-> "authorization_code", refresh_token |-> None, code |-> code]

\* what the user does at the input() prompt: closes it, or pastes a redirect URL
\* whose query string has or lacks code and realmId
NoPaste == [kind |-> "none", code |-> None, realmId |-> None]
Abandon == [kind |-> "abandon", code |-> None, realmId |-> None]
Url(code, realm) == [kind |-> "url", code |-> code, realmId |-> realm]
Pastes == {Abandon} \cup {Url(c, r) : c \in {None, 1}, r \in Realms \cup {None}}

\* line 58: the state parameter placed in the authorization URL
StateParam == "secure_state_123"
\* no authorization URL was built
NoState == ""

\* no fetch_all_inventory_with_sku() call is running
NoFetch == [pc |-> "none", n |-> 0, pat |-> 0, token |-> None, realm_id |-> None,
            start_position |-> 0, all_items |-> <<>>,
            requests |-> <<>>, failed |-> FALSE, returned |-> <<>>]

NoLocal == [data |-> AbsentFile, realm_id |-> None, encrypted_refresh |-> NoCipher, req |-> NoReq,
            unlinked |-> FALSE]

NoResult == [kind |-> "none", value |-> None, err |-> ""]
Returned(v) == [kind |-> "return", value |-> v, err |-> ""]
Raised(e) == [kind |-> "raise", value |-> None, err |-> e]

\* history of one get_access_token() call
NoHist == [start |-> AbsentFile,        \* TOKEN_FILE when the call started
           refreshReqs |-> 0,           \* refresh-token requests sent
           exchangeReqs |-> 0,          \* authorization-code requests sent
           interactive |-> 0,           \* times authenticate_first_time() was entered
           refreshResp |-> NoResp,      \* the answer to the refresh request
           preInteractive |-> AbsentFile, \* TOKEN_FILE when authenticate_first_time() was entered
           paste |-> NoPaste,           \* what the user gave at the prompt
           got200 |-> {},               \* access tokens issued to this call in HTTP 200 responses
           writes |-> 0,                \* times TOKEN_FILE was opened for writing
           failed |-> FALSE,            \* the interactive attempt ended with an error
           priorToken |-> None,         \* self.access_token when the call started
           end |-> AbsentFile,          \* TOKEN_FILE when the call ended
           preToken |-> None,           \* self.access_token when authenticate_first_time() was entered
           preRealm |-> None,           \* self.realm_id when authenticate_first_time() was entered
           preKey |-> NoKey,            \* KEY_FILE when authenticate_first_time() was entered
           endKey |-> NoKey,            \* KEY_FILE when the call ended
           state |-> NoState,           \* state value in the authorization URL of this call's attempt
           prevState |-> NoState,       \* state value of the process's previous attempt
           afterRotation |-> FALSE]     \* the process's previous call stored a rotated refresh token

----------------------------------------------------------------------------
(* Initial state: a fresh installation, no process has imported the module *)

\* no process of ps has imported the module
InitProcs(ps) ==
    /\ pc = [p \in ps |-> "unloaded"]
    /\ attrs = [p \in ps |-> {}]
    /\ access_token = [p \in ps |-> None]
    /\ realm_id = [p \in ps |-> None]
    /\ fernet = [p \in ps |-> NoKey]
    /\ local = [p \in ps |-> NoLocal]
    /\ result = [p \in ps |-> NoResult]
    /\ realmResult = [p \in ps |-> NoResult]
    /\ hist = [p \in ps |-> NoHist]
    /\ instances = [p \in ps |-> <<>>]

\* neither file exists, the endpoint has issued nothing
InitFiles ==
    /\ keyFile = NoKey
    /\ tokenFile = AbsentFile
    /\ nextKey = 1
    /\ issued = 0
    /\ written = AbsentFile
    /\ validRT = None

\* the key file and a valid bundle are on disk, as a first authorization that
\* was issued token 1 for realm 1 leaves them
AuthorizedFiles ==
    /\ keyFile = 1
    /\ nextKey = 2
    /\ issued = 1
    /\ validRT = 1
    /\ tokenFile = BundleFile(Encrypt(1, 1), 1)
    /\ written = BundleFile(Encrypt(1, 1), 1)

Init ==
    /\ InitFiles
    /\ InitProcs(Procs)
    /\ fetch = NoFetch

----------------------------------------------------------------------------
(* Helpers translated from the code *)

\* os.path.exists(TOKEN_FILE)
Exists(tf) == tf.kind # "absent"

\* whether json.load(f) parses the file and data["refresh_token"] is there
JsonLoadOk(tf) == tf.kind = "bundle"

\* the content of KEY_FILE after _load_or_create_key(): written only when it does not exist
LoadOrCreateKey_Always(kf, nk) == nk
LoadOrCreateKey(kf, nk) == IF kf = NoKey THEN nk ELSE kf

\* data.get("realm_id"): the realm_id entry of the loaded file
LoadedRealm_WrongKey(data) == None
LoadedRealm(data) == data.realm_id

\* resp.status_code == 200
StatusOk(status) == status = 200

\* Python truthiness of new_tokens.get("refresh_token")
Truthy(v) == v # None

\* data["refresh_token"] = encrypted_refresh: the other entries of data are kept
RotateData_KeepOld(data, enc) == data
RotateData_DropRealm(data, enc) == BundleFile(enc, None)
RotateData(data, enc) == [data EXCEPT !.refresh_token = enc]

\* os.remove(TOKEN_FILE)
RemoveTokenFile_Keep(tf) == tf
RemoveTokenFile(tf) == AbsentFile

\* json.dump(data, f) into the file opened before. unlinked: another process
\* removed that file (os.remove) after it was opened; the data then goes to the
\* unlinked file and TOKEN_FILE stays as it is, absent or a file created since
JsonDump(tf, data, unlinked) == IF unlinked THEN tf ELSE data

\* os.remove(TOKEN_FILE) by p: the locals loc, with the file every other process
\* holds open for writing now unlinked
Unlink(loc, p) ==
    [q \in DOMAIN loc |->
        IF q # p /\ pc[q] \in {"gat_write", "aft_write"}
        THEN [loc[q] EXCEPT !.unlinked = TRUE]
        ELSE loc[q]]

\* open(TOKEN_FILE, "w"): the file is created or truncated before anything is written
OpenForWrite(tf) == EmptyFile

\* what the token endpoint may answer; n numbers the tokens of an HTTP 200 answer
RefreshResponses(n) ==
    {Resp(200, n, n), Resp(200, n, None)} \cup {Resp(s, None, None) : s \in ErrStatuses}
ExchangeResponses(n) ==
    {Resp(200, n, n), Resp(200, n, None)} \cup {Resp(s, None, None) : s \in ErrStatuses}

\* the call of process p ends by raising e / by returning v; h is the call's
\* history and tf the bundle file as the call leaves it
Raise(p, e, h, tf) ==
    /\ pc' = [pc EXCEPT ![p] = "idle"]
    /\ result' = [result EXCEPT ![p] = Raised(e)]
    /\ hist' = [hist EXCEPT ![p] = [h EXCEPT !.end = tf, !.endKey = keyFile]]
Return(p, v, h, tf) ==
    /\ pc' = [pc EXCEPT ![p] = "idle"]
    /\ result' = [result EXCEPT ![p] = Returned(v)]
    /\ hist' = [hist EXCEPT ![p] = [h EXCEPT !.end = tf, !.endKey = keyFile]]

\* the history h when authenticate_first_time() is entered with the bundle file
\* tf, self.access_token at and self.realm_id rid
EnterInteractive(h, tf, at, rid) ==
    [h EXCEPT !.interactive = @ + 1, !.preInteractive = tf, !.preToken = at,
              !.preRealm = rid, !.preKey = keyFile, !.state = StateParam]

\* the history of a call of p that is starting: TOKEN_FILE and self.access_token
\* as they are, and the state value of the last attempt made before it
StartHist(p) ==
    [NoHist EXCEPT !.start = tokenFile, !.priorToken = access_token[p],
                   !.prevState = IF hist[p].state # NoState THEN hist[p].state
                                 ELSE hist[p].prevState,
                   !.afterRotation = /\ result[p].kind = "return"
                                     /\ hist[p].refreshResp.refresh_token # None]

\* positions inside a get_access_token() call
InCall == {"gat_open", "refresh_wait", "gat_write", "aft_input", "aft_wait", "aft_write"}

\* no process is inside a call
Quiescent == \A p \in DOMAIN pc : pc[p] \notin InCall

----------------------------------------------------------------------------
(* QboAuth.__init__ and _load_or_create_key: the module-level instance *)

Construct(p) ==
    /\ pc[p] = "unloaded"
    /\ keyFile' = LoadOrCreateKey(keyFile, nextKey)
    /\ nextKey' = IF keyFile = NoKey THEN nextKey + 1 ELSE nextKey
    /\ fernet' = [fernet EXCEPT ![p] = keyFile']
    /\ access_token' = [access_token EXCEPT ![p] = None]
    /\ realm_id' = [realm_id EXCEPT ![p] = None]
    /\ attrs' = [attrs EXCEPT ![p] = {"access_token", "realm_id", "_fernet"}]
    /\ instances' = [instances EXCEPT ![p] = <<keyFile'>>]
    /\ pc' = [pc EXCEPT ![p] = "idle"]
    /\ UNCHANGED <<tokenFile, issued, local, result, realmResult, hist, written>>
    /\ UNCHANGED <<validRT, fetch>>

\* line 183 of the usage example: auth = QboAuth(), a second instance in the
\* process that already holds the module-level one; it is used for nothing else
MainInstance(p) ==
    /\ pc[p] = "idle"
    /\ Len(instances[p]) = 1
    /\ keyFile' = LoadOrCreateKey(keyFile, nextKey)
    /\ nextKey' = IF keyFile = NoKey THEN nextKey + 1 ELSE nextKey
    /\ instances' = [instances EXCEPT ![p] = Append(@, keyFile')]
    /\ UNCHANGED <<tokenFile, issued, pc, attrs, access_token, realm_id, fernet, local,
                   result, realmResult, hist, written>>
    /\ UNCHANGED <<validRT, fetch>>

----------------------------------------------------------------------------
(* QboAuth.get_access_token, line 112: is there a bundle file; line 153 when *)
(* there is none                                                             *)

GetAccessTokenBody(p) ==
    /\ pc[p] = "idle"
    /\ issued + 2 <= MaxIssued
    /\ LET h0 == StartHist(p) IN
       IF ~Exists(tokenFile) THEN
           \* line 153: authenticate_first_time() runs up to input()
           /\ pc' = [pc EXCEPT ![p] = "aft_input"]
           /\ hist' = [hist EXCEPT ![p] =
                          EnterInteractive(h0, tokenFile, access_token[p], realm_id[p])]
       ELSE
           \* line 112 is true; the file is opened at line 113
           /\ pc' = [pc EXCEPT ![p] = "gat_open"]
           /\ hist' = [hist EXCEPT ![p] = h0]
    /\ result' = [result EXCEPT ![p] = NoResult]
    /\ local' = [local EXCEPT ![p] = NoLocal]
    /\ UNCHANGED <<keyFile, tokenFile, nextKey, issued, attrs, access_token, fernet,
                   realmResult, realm_id,
                   instances, written>>
    /\ UNCHANGED <<validRT, fetch>>

\* lines 113-132: open the file, load the bundle, send the refresh request
LoadBundle(p) ==
    /\ pc[p] = "gat_open"
    /\ LET h0 == hist[p] IN
       IF ~Exists(tokenFile) THEN
           \* line 113: another process removed the file after line 112
           /\ Raise(p, "FileNotFoundError", h0, tokenFile)
           /\ local' = [local EXCEPT ![p] = NoLocal]
           /\ UNCHANGED realm_id
       ELSE IF ~JsonLoadOk(tokenFile) THEN
           \* line 114: json.load raises; nothing handles it
           /\ Raise(p, "JSONDecodeError", h0, tokenFile)
           /\ local' = [local EXCEPT ![p] = NoLocal]
           /\ UNCHANGED realm_id
       ELSE
           \* line 117 runs before the decryption of line 119
           /\ realm_id' = [realm_id EXCEPT ![p] = LoadedRealm(tokenFile)]
           /\ IF ~DecryptOk(fernet[p], tokenFile.refresh_token) THEN
                  \* line 119: decrypt raises InvalidToken; nothing handles it
                  /\ Raise(p, "InvalidToken", h0, tokenFile)
                  /\ local' = [local EXCEPT ![p] = NoLocal]
              ELSE
                  \* lines 123-132
                  /\ pc' = [pc EXCEPT ![p] = "refresh_wait"]
                  /\ result' = [result EXCEPT ![p] = NoResult]
                  /\ hist' = [hist EXCEPT ![p] = [h0 EXCEPT !.refreshReqs = 1]]
                  /\ local' = [local EXCEPT ![p] =
                        [NoLocal EXCEPT
                           !.data = tokenFile,
                           !.encrypted_refresh = tokenFile.refresh_token,
                           !.req = RefreshReq(Decrypt(fernet[p], tokenFile.refresh_token))]]
    /\ UNCHANGED <<keyFile, tokenFile, nextKey, issued, attrs, access_token, fernet,
                   realmResult,
                   instances, written>>
    /\ UNCHANGED <<validRT, fetch>>

\* a get_access_token() that answers from self.access_token when it is set,
\* as the token property of lines 36-39 does
GetAccessToken_Cached(p) ==
    IF pc[p] = "idle" /\ access_token[p] # None
    THEN /\ issued + 2 <= MaxIssued
         /\ Return(p, access_token[p], StartHist(p), tokenFile)
         /\ UNCHANGED <<keyFile, tokenFile, nextKey, issued, attrs, access_token, fernet,
                        realmResult, realm_id, local,
                   instances, written, validRT, fetch>>
    ELSE GetAccessTokenBody(p)

GetAccessToken(p) == GetAccessTokenBody(p)

----------------------------------------------------------------------------
(* QboAuth.get_access_token, lines 134-153: the answer to the refresh request *)

RefreshResponseWith(p, resps) ==
    /\ pc[p] = "refresh_wait"
    /\ \E resp \in resps :
         LET h1 == [hist[p] EXCEPT
                      !.refreshResp = resp,
                      !.got200 = IF resp.status = 200 THEN @ \cup {resp.access_token} ELSE @]
         IN
         /\ issued' = IF resp.status = 200 THEN issued + 1 ELSE issued
         /\ validRT' = IF resp.status = 200 /\ resp.refresh_token # None
                        THEN resp.refresh_token ELSE validRT
         /\ IF StatusOk(resp.status) THEN
                \* line 136
                /\ access_token' = [access_token EXCEPT ![p] = resp.access_token]
                /\ IF Truthy(resp.refresh_token) THEN
                       \* lines 141-146: encrypt, update data, open the file for writing
                       LET enc == Encrypt(fernet[p], resp.refresh_token) IN
                       /\ local' = [local EXCEPT ![p] =
                             [@ EXCEPT !.encrypted_refresh = enc,
                                       !.data = RotateData(@, enc),
                                       !.req = NoReq,
                                       !.unlinked = FALSE]]
                       /\ tokenFile' = OpenForWrite(tokenFile)
                       /\ pc' = [pc EXCEPT ![p] = "gat_write"]
                       /\ hist' = [hist EXCEPT ![p] = [h1 EXCEPT !.writes = @ + 1]]
                       /\ UNCHANGED <<result, written>>
                   ELSE
                       \* no return in this branch: control reaches line 153 and
                       \* authenticate_first_time() runs up to input()
                       /\ local' = [local EXCEPT ![p] = [@ EXCEPT !.req = NoReq]]
                       /\ pc' = [pc EXCEPT ![p] = "aft_input"]
                       /\ hist' = [hist EXCEPT ![p] =
                             EnterInteractive(h1, tokenFile, resp.access_token, realm_id[p])]
                       /\ UNCHANGED <<tokenFile, result, written>>
            ELSE IF ~Exists(tokenFile) THEN
                \* line 150: os.remove of a file another process already removed
                /\ Raise(p, "FileNotFoundError", h1, tokenFile)
                /\ local' = [local EXCEPT ![p] = [@ EXCEPT !.req = NoReq]]
                /\ UNCHANGED <<tokenFile, access_token, written>>
            ELSE
                \* line 150, then line 153: authenticate_first_time() runs up to input()
                /\ tokenFile' = RemoveTokenFile(tokenFile)
                /\ written' = RemoveTokenFile(tokenFile)
                /\ local' = Unlink([local EXCEPT ![p] = [@ EXCEPT !.req = NoReq]], p)
                /\ pc' = [pc EXCEPT ![p] = "aft_input"]
                /\ hist' = [hist EXCEPT ![p] =
                      EnterInteractive(h1, RemoveTokenFile(tokenFile), access_token[p],
                                       realm_id[p])]
                /\ UNCHANGED <<access_token, result>>
    /\ UNCHANGED <<keyFile, nextKey, attrs, realm_id, fernet, realmResult,
                   instances>>
    /\ UNCHANGED fetch

\* the endpoint may or may not rotate, or rejects the token
RefreshResponse(p) == RefreshResponseWith(p, RefreshResponses(issued + 1))

\* lines 147-148: json.dump(data, f), the file is closed, return self.access_token
RotationWrite(p) ==
    /\ pc[p] = "gat_write"
    /\ tokenFile' = JsonDump(tokenFile, local[p].data, local[p].unlinked)
    /\ written' = local[p].data
    /\ Return(p, access_token[p], hist[p],
              JsonDump(tokenFile, local[p].data, local[p].unlinked))
    /\ UNCHANGED <<keyFile, nextKey, issued, attrs, access_token, realm_id, fernet,
                   local, realmResult,
                   instances>>
    /\ UNCHANGED <<validRT, fetch>>

----------------------------------------------------------------------------
(* QboAuth.authenticate_first_time *)

\* an authenticate_first_time() that prompts again when the pasted URL has no code
AuthInput_Retry(p) ==
    /\ pc[p] = "aft_input"
    /\ \E paste \in Pastes :
         LET h1 == [hist[p] EXCEPT !.paste = paste] IN
         IF paste.kind = "abandon" THEN
             /\ Raise(p, "EOFError", [h1 EXCEPT !.failed = TRUE], tokenFile)
             /\ UNCHANGED local
         ELSE IF paste.code = None THEN
             /\ hist' = [hist EXCEPT ![p] =
                   [h1 EXCEPT !.failed = TRUE, !.interactive = @ + 1]]
             /\ UNCHANGED <<local, pc, result>>
         ELSE
             /\ local' = [local EXCEPT ![p] =
                   [@ EXCEPT !.realm_id = paste.realmId, !.req = CodeReq(paste.code)]]
             /\ pc' = [pc EXCEPT ![p] = "aft_wait"]
             /\ hist' = [hist EXCEPT ![p] = [h1 EXCEPT !.exchangeReqs = @ + 1]]
             /\ UNCHANGED result
    /\ UNCHANGED <<keyFile, tokenFile, nextKey, issued, attrs, access_token, realm_id,
                   fernet, realmResult,
                   instances, written>>
    /\ UNCHANGED <<validRT, fetch>>

\* lines 67-88: the user answers the prompt; the URL is parsed; the code is sent
AuthInputWith(p, pastes) ==
    /\ pc[p] = "aft_input"
    /\ \E paste \in pastes :
         LET h1 == [hist[p] EXCEPT !.paste = paste] IN
         IF paste.kind = "abandon" THEN
             \* input() raises EOFError / KeyboardInterrupt
             /\ Raise(p, "EOFError", [h1 EXCEPT !.failed = TRUE], tokenFile)
             /\ UNCHANGED local
         ELSE IF paste.code = None THEN
             \* line 73: query_params["code"] raises KeyError
             /\ Raise(p, "KeyError: code", [h1 EXCEPT !.failed = TRUE], tokenFile)
             /\ UNCHANGED local
         ELSE
             \* line 74: realm_id is None when realmId is missing; lines 76-88
             /\ local' = [local EXCEPT ![p] =
                   [@ EXCEPT !.realm_id = paste.realmId, !.req = CodeReq(paste.code)]]
             /\ pc' = [pc EXCEPT ![p] = "aft_wait"]
             /\ hist' = [hist EXCEPT ![p] = [h1 EXCEPT !.exchangeReqs = @ + 1]]
             /\ UNCHANGED result
    /\ UNCHANGED <<keyFile, tokenFile, nextKey, issued, attrs, access_token, realm_id,
                   fernet, realmResult,
                   instances, written>>
    /\ UNCHANGED <<validRT, fetch>>

\* the user pastes a redirect URL, or gives none
AuthInput(p) == AuthInputWith(p, Pastes)

\* an authenticate_first_time() that stores realm_id on the instance before it
\* looks at the status of the answer
AuthResponse_RealmFirst(p) ==
    /\ pc[p] = "aft_wait"
    /\ \E resp \in ExchangeResponses(issued + 1) :
         LET h1 == [hist[p] EXCEPT
                      !.got200 = IF resp.status = 200 THEN @ \cup {resp.access_token} ELSE @]
         IN
         /\ issued' = IF resp.status = 200 THEN issued + 1 ELSE issued
         /\ validRT' = IF resp.status = 200 /\ resp.refresh_token # None
                        THEN resp.refresh_token ELSE validRT
         /\ realm_id' = [realm_id EXCEPT ![p] = local[p].realm_id]
         /\ IF ~StatusOk(resp.status) THEN
                /\ Raise(p, "Exception: Auth failed", [h1 EXCEPT !.failed = TRUE], tokenFile)
                /\ local' = [local EXCEPT ![p] = [@ EXCEPT !.req = NoReq]]
                /\ UNCHANGED <<tokenFile, access_token>>
            ELSE
                /\ access_token' = [access_token EXCEPT ![p] = resp.access_token]
                /\ IF resp.refresh_token = None THEN
                       /\ Raise(p, "KeyError: refresh_token", [h1 EXCEPT !.failed = TRUE],
                                tokenFile)
                       /\ local' = [local EXCEPT ![p] = [@ EXCEPT !.req = NoReq]]
                       /\ UNCHANGED tokenFile
                   ELSE
                       /\ local' = [local EXCEPT ![p] =
                             [@ EXCEPT
                                !.encrypted_refresh = Encrypt(fernet[p], resp.refresh_token),
                                !.req = NoReq,
                                !.unlinked = FALSE]]
                       /\ tokenFile' = OpenForWrite(tokenFile)
                       /\ pc' = [pc EXCEPT ![p] = "aft_write"]
                       /\ hist' = [hist EXCEPT ![p] = [h1 EXCEPT !.writes = @ + 1]]
                       /\ UNCHANGED result
    /\ UNCHANGED <<keyFile, nextKey, attrs, fernet, realmResult,
                   instances, written>>
    /\ UNCHANGED fetch

\* lines 90-100: the answer to the authorization-code request
AuthResponse(p) ==
    /\ pc[p] = "aft_wait"
    /\ \E resp \in ExchangeResponses(issued + 1) :
         LET h1 == [hist[p] EXCEPT
                      !.got200 = IF resp.status = 200 THEN @ \cup {resp.access_token} ELSE @]
         IN
         /\ issued' = IF resp.status = 200 THEN issued + 1 ELSE issued
         /\ validRT' = IF resp.status = 200 /\ resp.refresh_token # None
                        THEN resp.refresh_token ELSE validRT
         /\ IF ~StatusOk(resp.status) THEN
                \* line 91
                /\ Raise(p, "Exception: Auth failed", [h1 EXCEPT !.failed = TRUE], tokenFile)
                /\ local' = [local EXCEPT ![p] = [@ EXCEPT !.req = NoReq]]
                /\ UNCHANGED <<tokenFile, access_token, realm_id>>
            ELSE
                \* lines 94-95
                /\ access_token' = [access_token EXCEPT ![p] = resp.access_token]
                /\ realm_id' = [realm_id EXCEPT ![p] = local[p].realm_id]
                /\ IF resp.refresh_token = None THEN
                       \* line 98: tokens["refresh_token"] raises KeyError
                       /\ Raise(p, "KeyError: refresh_token", [h1 EXCEPT !.failed = TRUE],
                                tokenFile)
                       /\ local' = [local EXCEPT ![p] = [@ EXCEPT !.req = NoReq]]
                       /\ UNCHANGED tokenFile
                   ELSE
                       \* lines 99-100: encrypt, open the file for writing
                       /\ local' = [local EXCEPT ![p] =
                             [@ EXCEPT
                                !.encrypted_refresh = Encrypt(fernet[p], resp.refresh_token),
                                !.req = NoReq,
                                !.unlinked = FALSE]]
                       /\ tokenFile' = OpenForWrite(tokenFile)
                       /\ pc' = [pc EXCEPT ![p] = "aft_write"]
                       /\ hist' = [hist EXCEPT ![p] = [h1 EXCEPT !.writes = @ + 1]]
                       /\ UNCHANGED result
    /\ UNCHANGED <<keyFile, nextKey, attrs, fernet, realmResult,
                   instances, written>>
    /\ UNCHANGED fetch

\* lines 101-107: json.dump, the file is closed, return self.access_token
AuthWrite(p) ==
    /\ pc[p] = "aft_write"
    /\ tokenFile' = JsonDump(tokenFile,
                             BundleFile(local[p].encrypted_refresh, local[p].realm_id),
                             local[p].unlinked)
    /\ written' = BundleFile(local[p].encrypted_refresh, local[p].realm_id)
    /\ Return(p, access_token[p], hist[p],
              JsonDump(tokenFile, BundleFile(local[p].encrypted_refresh, local[p].realm_id),
                       local[p].unlinked))
    /\ UNCHANGED <<keyFile, nextKey, issued, attrs, access_token, realm_id, fernet,
                   local, realmResult,
                   instances>>
    /\ UNCHANGED <<validRT, fetch>>

----------------------------------------------------------------------------
(* get_realm_id, lines 169-176 *)

\* hasattr(_auth_instance, name)
HasAttr(p, name) == name \in attrs[p]

GetRealmId(p) ==
    /\ pc[p] = "idle"
    /\ realmResult' = [realmResult EXCEPT ![p] =
          IF ~HasAttr(p, "realm_id")
          THEN Raised("realmId not available")
          ELSE Returned(realm_id[p])]
    /\ UNCHANGED <<keyFile, tokenFile, nextKey, issued, pc, attrs, access_token,
                   realm_id, fernet, local, result, hist,
                   instances, written>>
    /\ UNCHANGED <<validRT, fetch>>

----------------------------------------------------------------------------
(* The environment: the process ends; between calls the files are changed *)
(* from outside                                                            *)

\* the process exits or crashes at any point; its memory is lost, the files stay
Exit(p) ==
    /\ pc[p] # "unloaded"
    /\ pc' = [pc EXCEPT ![p] = "unloaded"]
    /\ attrs' = [attrs EXCEPT ![p] = {}]
    /\ access_token' = [access_token EXCEPT ![p] = None]
    /\ realm_id' = [realm_id EXCEPT ![p] = None]
    /\ fernet' = [fernet EXCEPT ![p] = NoKey]
    /\ local' = [local EXCEPT ![p] = NoLocal]
    /\ result' = [result EXCEPT ![p] = NoResult]
    /\ realmResult' = [realmResult EXCEPT ![p] = NoResult]
    /\ hist' = [hist EXCEPT ![p] = NoHist]
    /\ instances' = [instances EXCEPT ![p] = <<>>]
    /\ UNCHANGED <<keyFile, tokenFile, nextKey, issued, written>>
    /\ UNCHANGED <<validRT, fetch>>

\* the key file is lost
DeleteKeyFile ==
    /\ Quiescent
    /\ keyFile # NoKey
    /\ nextKey <= MaxKeys
    /\ keyFile' = NoKey
    /\ UNCHANGED <<tokenFile, nextKey, issued, pc, attrs, access_token, realm_id,
                   fernet, local, result, realmResult, hist,
                   instances, written>>
    /\ UNCHANGED <<validRT, fetch>>

\* the stored ciphertext is altered
TamperCiphertext ==
    /\ Quiescent
    /\ tokenFile.kind = "bundle"
    /\ tokenFile.refresh_token.intact
    /\ tokenFile' = [tokenFile EXCEPT !.refresh_token.intact = FALSE]
    /\ UNCHANGED <<keyFile, nextKey, issued, pc, attrs, access_token, realm_id,
                   fernet, local, result, realmResult, hist,
                   instances, written>>
    /\ UNCHANGED <<validRT, fetch>>

\* the stored realm_id is altered
TamperRealm ==
    /\ Quiescent
    /\ tokenFile.kind = "bundle"
    /\ \E r \in Realms \ {tokenFile.realm_id} :
         tokenFile' = [tokenFile EXCEPT !.realm_id = r]
    /\ UNCHANGED <<keyFile, nextKey, issued, pc, attrs, access_token, realm_id,
                   fernet, local, result, realmResult, hist,
                   instances, written>>
    /\ UNCHANGED <<validRT, fetch>>

----------------------------------------------------------------------------

Next ==
    \/ \E p \in Procs :
         \/ Construct(p)
         \/ MainInstance(p)
         \/ GetAccessToken(p)
         \/ LoadBundle(p)
         \/ RefreshResponse(p)
         \/ RotationWrite(p)
         \/ AuthInput(p)
         \/ AuthResponse(p)
         \/ AuthWrite(p)
         \/ GetRealmId(p)
         \/ Exit(p)
    \/ DeleteKeyFile
    \/ TamperCiphertext
    \/ TamperRealm

Spec == Init /\ [][Next]_vars

----------------------------------------------------------------------------
(* Properties *)

\* the refresh request of p's call was answered 200 without a refresh_token
RefreshedNoRotation(p) ==
    /\ hist[p].refreshResp.status = 200
    /\ hist[p].refreshResp.refresh_token = None

\* the refresh request of p's call was answered 200 with a new refresh_token
RefreshedRotated(p) ==
    /\ hist[p].refreshResp.status = 200
    /\ hist[p].refreshResp.refresh_token # None

\* the refresh request of p's call was answered with a status other than 200
RefreshRejected(p) == hist[p].refreshResp.status \in ErrStatuses

\* p's get_access_token() call has ended
CallEnded(p) == pc[p] = "idle" /\ result[p].kind # "none"

\* C1: when the refresh request is answered 200 with an access token and no
\* refresh_token, the call returns exactly that access token and the interactive
\* flow is not started in that call.
C1_NoRotationReturnsToken ==
    \A p \in DOMAIN pc :
        RefreshedNoRotation(p) =>
            /\ hist[p].interactive = 0
            /\ pc[p] = "idle"
            /\ result[p] = Returned(hist[p].refreshResp.access_token)

\* C2: when the refresh response is 200 without a refresh_token, the call never
\* opens the bundle file for writing and the file after the call is the file
\* before the call.
C2_NoRotationKeepsBundle ==
    \A p \in DOMAIN pc :
        RefreshedNoRotation(p) =>
            /\ hist[p].writes = 0
            /\ CallEnded(p) => hist[p].end = hist[p].start

\* C3: when the refresh response is 200 with a new refresh_token, then after the
\* call returns the bundle decrypts to the new refresh token, not the old one,
\* and its realm_id is the one it had before the call.
C3_RotationPersisted ==
    \A p \in DOMAIN pc :
        (RefreshedRotated(p) /\ result[p].kind = "return") =>
            /\ hist[p].end.kind = "bundle"
            /\ DecryptOk(fernet[p], hist[p].end.refresh_token)
            /\ Decrypt(fernet[p], hist[p].end.refresh_token)
                   = hist[p].refreshResp.refresh_token
            /\ Decrypt(fernet[p], hist[p].end.refresh_token)
                   # Decrypt(fernet[p], hist[p].start.refresh_token)
            /\ hist[p].end.realm_id = hist[p].start.realm_id

C3_Witness ==
    \E p \in DOMAIN pc :
        /\ RefreshedRotated(p)
        /\ result[p].kind = "return"
        /\ hist[p].start.realm_id \in Realms
        /\ tokenFile = hist[p].end

\* C4: when the refresh request is answered with a non-200 status, the bundle
\* file is removed before the interactive flow begins, the interactive flow is
\* entered, the file stays absent until the flow writes a new bundle, and it is
\* absent at the end of a call whose interactive attempt failed or was abandoned.
C4_RejectedRefreshDiscardsBundle ==
    \A p \in DOMAIN pc :
        RefreshRejected(p) =>
            /\ hist[p].interactive = 1
            /\ hist[p].preInteractive = AbsentFile
            /\ pc[p] \in {"aft_input", "aft_wait"} => tokenFile = AbsentFile
            /\ (CallEnded(p) /\ result[p].kind = "raise") => hist[p].end = AbsentFile

C4_Witness ==
    \E p \in DOMAIN pc :
        /\ RefreshRejected(p)
        /\ Exists(hist[p].start)
        /\ hist[p].failed
        /\ result[p].kind = "raise"
        /\ tokenFile = AbsentFile

\* C5: when the bundle file exists but cannot be parsed or decrypted under the
\* current key, the call deletes the stale file and enters the interactive flow
\* instead of failing with the bundle left in place.
C5_CorruptBundleDiscarded ==
    \A p \in DOMAIN pc :
        (/\ pc[p] # "unloaded"
         /\ Exists(hist[p].start)
         /\ ~(JsonLoadOk(hist[p].start)
              /\ DecryptOk(fernet[p], hist[p].start.refresh_token)))
        => /\ hist[p].interactive = 1
           /\ hist[p].preInteractive = AbsentFile

\* C6: get_realm_id() never returns an empty/None realm identifier: it raises
\* whenever no realm is known.
C6_RealmNeverNone ==
    \A p \in DOMAIN pc :
        realmResult[p].kind = "return" => realmResult[p].value # None

\* C7: when the pasted redirect URL has a code but no realmId, no
\* authorization-code request is sent, no bundle is written and no access token
\* is returned; no bundle without a realm_id is ever persisted.
C7_MissingRealmFails ==
    /\ \A p \in DOMAIN pc :
         (/\ hist[p].paste.kind = "url"
          /\ hist[p].paste.code # None
          /\ hist[p].paste.realmId = None)
         => /\ hist[p].exchangeReqs = 0
            /\ hist[p].writes = 0
            /\ result[p].kind # "return"
    /\ tokenFile.kind = "bundle" => tokenFile.realm_id # None

\* C8: at every point of a bundle write the bundle file is either the complete
\* previous bundle (or still absent) or the complete new bundle, never an empty
\* or partial file.
C8_AtomicBundleWrite ==
    /\ tokenFile.kind # "empty"
    /\ \A p \in DOMAIN pc :
         pc[p] \in {"gat_write", "aft_write"} =>
            \/ tokenFile = hist[p].start
            \/ tokenFile = hist[p].preInteractive
            \/ /\ tokenFile.kind = "bundle"
               /\ tokenFile.refresh_token = local[p].encrypted_refresh

\* C9: every access token a get_access_token() call returns was issued in an
\* HTTP 200 response the token endpoint gave during that same call.
C9_ReturnedTokenIssuedInCall ==
    \A p \in DOMAIN pc :
        result[p].kind = "return" => result[p].value \in hist[p].got200

C9_Witness ==
    \E p \in DOMAIN pc :
        /\ result[p].kind = "return"
        /\ hist[p].priorToken # None
        /\ result[p].value # hist[p].priorToken
        /\ result[p].value \in hist[p].got200

\* how many steps a call at position s can still take
Rank(s) ==
    CASE s = "gat_open" -> 5
      [] s = "refresh_wait" -> 4
      [] s = "aft_input" -> 3
      [] s = "aft_wait" -> 2
      [] s \in {"gat_write", "aft_write"} -> 1
      [] OTHER -> 0

\* a call sends at most one refresh request and makes at most one interactive
\* attempt; once the interactive attempt has failed the call has ended with the
\* error
C10_Counts ==
    \A p \in DOMAIN pc :
        /\ hist[p].refreshReqs <= 1
        /\ hist[p].interactive <= 1
        /\ hist[p].exchangeReqs <= 1
        /\ hist[p].failed =>
              /\ pc[p] = "idle"
              /\ result[p].kind = "raise"
              /\ hist[p].writes = 0

\* every step taken while a call runs brings that call strictly closer to its end
C10_Progress ==
    \A p \in DOMAIN pc :
        pc[p] \in InCall =>
            \/ pc'[p] = pc[p] /\ hist'[p] = hist[p]
            \/ Rank(pc'[p]) < Rank(pc[p])

\* C10: a get_access_token() call ends after at most one refresh request and at
\* most one interactive attempt: each of its steps brings it closer to its end,
\* and when the interactive attempt fails the error surfaces to the caller with
\* no further refresh or interactive attempt in that call.
C10_BoundedCall == [](C10_Counts) /\ [][C10_Progress]_vars

C10_Witness ==
    \E p \in DOMAIN pc :
        /\ hist[p].refreshReqs = 1
        /\ hist[p].interactive = 1
        /\ hist[p].exchangeReqs = 1
        /\ hist[p].failed
        /\ result[p].kind = "raise"

\* the ways authenticate_first_time() fails before the exchange is accepted:
\* the prompt is closed, the URL has no code, the exchange is answered non-200
EarlyAuthErrors == {"EOFError", "KeyError: code", "Exception: Auth failed"}

\* C11: when authenticate_first_time() is abandoned at the prompt, fails on a
\* missing code or gets a non-200 answer to the exchange, the call ends with an
\* error and the bundle file, the key file, self.access_token and self.realm_id
\* are as they were when authenticate_first_time() started.
C11_FailedAuthChangesNothing ==
    \A p \in DOMAIN pc :
        (hist[p].interactive = 1 /\ hist[p].paste # NoPaste /\ pc[p] = "idle"
         /\ result[p].err \in EarlyAuthErrors) =>
            /\ result[p].kind = "raise"
            /\ hist[p].end = hist[p].preInteractive
            /\ hist[p].endKey = hist[p].preKey
            /\ access_token[p] = hist[p].preToken
            /\ realm_id[p] = hist[p].preRealm

C11_Witness ==
    \E p \in DOMAIN pc :
        /\ result[p] = Raised("Exception: Auth failed")
        /\ hist[p].paste.realmId \in Realms
        /\ hist[p].preInteractive.kind = "bundle"
        /\ hist[p].preToken # None
        /\ hist[p].preRealm # hist[p].paste.realmId
        /\ tokenFile = hist[p].preInteractive

\* a QboAuth instance is constructed in process p in this step
LoadsKey(p) == instances'[p] # instances[p] /\ instances'[p] # <<>>

\* C12: once the key file exists, every further _load_or_create_key() (a new
\* process, or another instance in the same process) leaves the key file as it
\* is, generates no key and loads the stored key, so that a bundle encrypted
\* under the stored key decrypts under the new instance.
C12_KeyCreationIdempotent ==
    [][\A p \in DOMAIN pc :
          (LoadsKey(p) /\ keyFile # NoKey) =>
              /\ keyFile' = keyFile
              /\ nextKey' = nextKey
              /\ instances'[p][Len(instances'[p])] = keyFile
              /\ Len(instances'[p]) = 1 => fernet'[p] = keyFile
              /\ (tokenFile.kind = "bundle" /\ DecryptOk(keyFile, tokenFile.refresh_token))
                    => DecryptOk(instances'[p][Len(instances'[p])],
                                 tokenFile.refresh_token)]_vars

C12_Witness ==
    \E p \in DOMAIN pc :
        /\ Len(instances[p]) = 2
        /\ instances[p][1] = instances[p][2]
        /\ keyFile = instances[p][2]
        /\ tokenFile.kind = "bundle"
        /\ DecryptOk(instances[p][2], tokenFile.refresh_token)
        /\ hist[p].start.kind = "bundle"
        /\ hist[p].refreshReqs = 1

\* C13: an alteration of the bundle file between a write and the next load, to
\* the refresh-token entry or to the realm_id entry, is detected by the load:
\* the call sends a refresh request only for a file that is as it was written,
\* and after a load self.realm_id (what get_realm_id() returns) is the realm_id
\* that was written.
C13_AlterationDetected ==
    \A p \in DOMAIN pc :
        /\ pc[p] = "refresh_wait" => local[p].data = written
        /\ (/\ pc[p] \in {"refresh_wait", "idle"}
            /\ hist[p].start.kind = "bundle"
            /\ hist[p].interactive = 0
            /\ hist[p].writes = 0
            /\ written.kind = "bundle")
           => realm_id[p] = written.realm_id

\* the bundle file, self.access_token and the result of a call that started with
\* no bundle file and returned: one interactive attempt, no refresh request, the
\* bundle holds the refresh token issued with the returned access token, under
\* the instance's key, and the realm_id of the redirect URL
C14_FirstRun ==
    \A p \in DOMAIN pc :
        (hist[p].interactive >= 1 /\ hist[p].start = AbsentFile
         /\ result[p].kind = "return") =>
            /\ hist[p].refreshReqs = 0
            /\ hist[p].interactive = 1
            /\ hist[p].exchangeReqs = 1
            /\ hist[p].got200 = {result[p].value}
            /\ access_token[p] = result[p].value
            /\ fernet[p] # NoKey
            /\ hist[p].end.kind = "bundle"
            /\ hist[p].end.realm_id = hist[p].paste.realmId
            /\ DecryptOk(fernet[p], hist[p].end.refresh_token)
            /\ Decrypt(fernet[p], hist[p].end.refresh_token) = result[p].value

\* constructing the manager when there is no key file creates the key file and
\* loads the new key
C14_KeyCreated ==
    \A p \in DOMAIN pc :
        (pc[p] = "unloaded" /\ pc'[p] = "idle" /\ keyFile = NoKey) =>
            /\ keyFile' # NoKey
            /\ fernet'[p] = keyFile'

\* C14: starting with neither a key file nor a bundle file, constructing the
\* manager creates the key file, and a get_access_token() call answered by a
\* provider that accepts the code runs the interactive flow with no refresh
\* request, persists a bundle with the issued refresh token and the redirect's
\* realm_id, and returns the issued access token.
C14_FreshInstallBootstrap == [](C14_FirstRun) /\ [][C14_KeyCreated]_vars

C14_Witness ==
    \E p \in DOMAIN pc :
        /\ hist[p].start = AbsentFile
        /\ result[p] = Returned(1)
        /\ hist[p].paste.realmId \in Realms
        /\ keyFile = 1
        /\ nextKey = 2
        /\ issued = 1
        /\ tokenFile.kind = "bundle"
        /\ tokenFile.realm_id = hist[p].paste.realmId
        /\ tokenFile.refresh_token.pt = 1

\* C15: the state value in the authorization URL is fresh for each interactive
\* attempt: an attempt never uses the state value of the attempt before it.
C15_FreshStatePerAttempt ==
    \A p \in DOMAIN pc :
        (hist[p].state # NoState /\ hist[p].prevState # NoState) =>
            hist[p].state # hist[p].prevState

\* C17: whenever a get_access_token() call returns an access token, the bundle
\* file exists as the call ends, and self.realm_id, which get_realm_id() then
\* returns, is the realm_id stored in that file.
C17_ReturnedRealmMatchesBundle ==
    \A p \in DOMAIN pc :
        result[p].kind = "return" =>
            /\ hist[p].end.kind = "bundle"
            /\ realm_id[p] = hist[p].end.realm_id

C17_Witness ==
    \E p \in DOMAIN pc :
        /\ result[p].kind = "return"
        /\ hist[p].refreshResp.status = 200
        /\ hist[p].refreshResp.refresh_token # None
        /\ hist[p].priorToken = None
        /\ realm_id[p] \in Realms
        /\ tokenFile = hist[p].end
        /\ realmResult[p] = Returned(tokenFile.realm_id)

----------------------------------------------------------------------------
(* One process that never exits or crashes *)

NextNoCrash ==
    \/ \E p \in Procs :
         \/ Construct(p)
         \/ MainInstance(p)
         \/ GetAccessToken(p)
         \/ LoadBundle(p)
         \/ RefreshResponse(p)
         \/ RotationWrite(p)
         \/ AuthInput(p)
         \/ AuthResponse(p)
         \/ AuthWrite(p)
         \/ GetRealmId(p)
    \/ DeleteKeyFile
    \/ TamperCiphertext
    \/ TamperRealm

SpecNoCrash == Init /\ [][NextNoCrash]_vars

\* C18: in one process that never crashes, the refresh token in every refresh
\* request in flight is the one the endpoint issued last (by a code exchange or
\* by the latest rotation); a token that a rotation has replaced is never sent.
C18_SendsLatestRefreshToken ==
    \A p \in DOMAIN pc :
        pc[p] = "refresh_wait" =>
            /\ local[p].req.grant_type = "refresh_token"
            /\ local[p].req.refresh_token = validRT

C18_Witness ==
    \E p \in DOMAIN pc :
        /\ pc[p] = "refresh_wait"
        /\ hist[p].afterRotation
        /\ local[p].req.refresh_token = validRT
        /\ validRT > 1

----------------------------------------------------------------------------
(* fetch_all_inventory_with_sku (src/src/inventory/inventory_items_qty_demo.py), *)
(* from line 42 on: get_access_token() and get_realm_id() have returned          *)

\* line 25
MAX_RESULTS == 1000

\* the item list holds up to MaxPages full pages and one item more
MaxPages == 2
\* item lists 0..MaxPattern are tried
MaxPattern == 2

\* a SKU is a sequence of characters; these are the SKUs items carry
SkuChoices == << <<"A">>, <<>>, <<" ", "B", " ">>, <<" ", " ">>, <<"C", " ", "D">>, <<" ", "E">> >>

\* item i of item list pat: list 0 has a plain SKU and a quantity on every item,
\* the others mix blank, padded and missing SKUs and missing quantities
ItemAt(i, pat) ==
    IF pat = 0
    THEN [hasSku |-> TRUE, Sku |-> <<"A">>, hasQty |-> TRUE, QtyOnHand |-> i]
    ELSE [hasSku |-> (i + pat) % 5 # 0,
          Sku |-> SkuChoices[((i * pat) % Len(SkuChoices)) + 1],
          hasQty |-> i % 4 # 0,
          QtyOnHand |-> i % 3]

\* sizes of the item list: around every multiple of MAX_RESULTS
FetchSizes ==
    {k * MAX_RESULTS + d : k \in 0..MaxPages, d \in {-1, 0, 1}} \cap Nat

\* the query endpoint: the items from STARTPOSITION on, at most MAXRESULTS of them
Page(n, pat, start, max) ==
    LET count == IF n - start + 1 < 0 THEN 0
                 ELSE IF n - start + 1 < max THEN n - start + 1 ELSE max
    IN [k \in 1..count |-> ItemAt(start + k - 1, pat)]

\* str.strip(): leading and trailing whitespace removed
RECURSIVE LStrip(_)
LStrip(s) == IF s # <<>> /\ Head(s) = " " THEN LStrip(Tail(s)) ELSE s
RECURSIVE RStrip(_)
RStrip(s) == IF s # <<>> /\ s[Len(s)] = " " THEN RStrip(SubSeq(s, 1, Len(s) - 1)) ELSE s
Strip(s) == RStrip(LStrip(s))

\* line 79: item.get('Sku', '').strip()
GetSku(item) == Strip(IF item.hasSku THEN item.Sku ELSE <<>>)
\* line 83: item.get('QtyOnHand', 0)
GetQty(item) == IF item.hasQty THEN item.QtyOnHand ELSE 0

\* lines 78-84: the (sku, qty) tuples the for loop appends for one page
PagePairs(items) ==
    SelectSeq([k \in 1..Len(items) |-> <<GetSku(items[k]), GetQty(items[k])>>],
              LAMBDA tuple : tuple[1] # <<>>)

\* line 86: the page is short, so it is the last one
LastPage_Inclusive(items) == Len(items) <= MAX_RESULTS
LastPage(items) == Len(items) < MAX_RESULTS

\* fetch_all_inventory_with_sku() is called against a provider holding n items
\* of list pat; line 30 has not run yet
StartFetch(n, pat) == [NoFetch EXCEPT !.pc = "call", !.n = n, !.pat = pat]

\* a fresh or an authorized installation; the script has not imported auth_demo yet
InitFetch ==
    /\ InitFiles \/ AuthorizedFiles
    /\ InitProcs(Procs)
    /\ \E n \in FetchSizes, pat \in 0..MaxPattern : fetch = StartFetch(n, pat)

\* line 30: get_access_token() is called, once
FetchGetAccessToken(p) ==
    /\ fetch.pc = "call"
    /\ result[p].kind = "none"
    /\ GetAccessToken(p)

\* line 30 raises: nothing handles it, the loop is never entered
FetchRaise(p) ==
    /\ fetch.pc = "call"
    /\ pc[p] = "idle"
    /\ result[p].kind = "raise"
    /\ fetch' = [fetch EXCEPT !.pc = "raised"]
    /\ UNCHANGED <<keyFile, tokenFile, nextKey, issued, pc, attrs, access_token, realm_id,
                   fernet, local, result, realmResult, hist, instances, written, validRT>>

\* line 30 returns the token; line 31: get_realm_id(); lines 33-43
FetchEnter(p) ==
    /\ fetch.pc = "call"
    /\ pc[p] = "idle"
    /\ result[p].kind = "return"
    /\ realmResult' = [realmResult EXCEPT ![p] =
          IF ~HasAttr(p, "realm_id")
          THEN Raised("realmId not available")
          ELSE Returned(realm_id[p])]
    /\ fetch' = IF ~HasAttr(p, "realm_id")
                THEN [fetch EXCEPT !.pc = "raised"]
                ELSE [fetch EXCEPT !.pc = "loop", !.token = result[p].value,
                                   !.realm_id = realm_id[p], !.start_position = 1,
                                   !.all_items = <<>>]
    /\ UNCHANGED <<keyFile, tokenFile, nextKey, issued, pc, attrs, access_token, realm_id,
                   fernet, local, result, hist, instances, written, validRT>>

\* lines 45-55: the query for the page at start_position is sent; requests.post
\* waits for the answer
FetchRequest ==
    /\ fetch.pc = "loop"
    /\ fetch' = [fetch EXCEPT !.requests = Append(@, fetch.start_position), !.pc = "wait"]
    /\ UNCHANGED <<keyFile, tokenFile, nextKey, issued, pc, attrs, access_token, realm_id,
                   fernet, local, result, realmResult, hist, instances, written, validRT>>

\* lines 55-89: the answer arrives and the iteration runs to its end
FetchResponse ==
    /\ fetch.pc = "wait"
    /\ \E status \in {200} \cup ErrStatuses :
         LET items == Page(fetch.n, fetch.pat, fetch.start_position, MAX_RESULTS) IN
         IF status # 200 THEN
             \* lines 57-66
             fetch' = [fetch EXCEPT !.failed = TRUE, !.pc = "return"]
         ELSE IF items = <<>> THEN
             \* lines 72-74
             fetch' = [fetch EXCEPT !.pc = "return"]
         ELSE IF LastPage(items) THEN
             \* lines 78-87
             fetch' = [fetch EXCEPT !.all_items = @ \o PagePairs(items), !.pc = "return"]
         ELSE
             \* lines 78-89
             fetch' = [fetch EXCEPT !.all_items = @ \o PagePairs(items),
                                    !.start_position = @ + MAX_RESULTS,
                                    !.pc = "loop"]
    /\ UNCHANGED <<keyFile, tokenFile, nextKey, issued, pc, attrs, access_token, realm_id,
                   fernet, local, result, realmResult, hist, instances, written, validRT>>

\* line 91
FetchReturn ==
    /\ fetch.pc = "return"
    /\ fetch' = [fetch EXCEPT !.pc = "done", !.returned = fetch.all_items]
    /\ UNCHANGED <<keyFile, tokenFile, nextKey, issued, pc, attrs, access_token, realm_id,
                   fernet, local, result, realmResult, hist, instances, written, validRT>>

NextFetch ==
    \/ \E p \in Procs :
         \/ Construct(p)
         \/ FetchGetAccessToken(p)
         \/ LoadBundle(p)
         \/ RefreshResponse(p)
         \/ RotationWrite(p)
         \/ AuthInput(p)
         \/ AuthResponse(p)
         \/ AuthWrite(p)
         \/ FetchRaise(p)
         \/ FetchEnter(p)
    \/ FetchRequest
    \/ FetchResponse
    \/ FetchReturn

\* the loop is sequential code: a query that can be sent is sent, a return that
\* can be made is made; whether an answer arrives is up to the provider
SpecFetch == InitFetch /\ [][NextFetch]_vars /\ WF_vars(FetchRequest) /\ WF_vars(FetchReturn)

\* a SKU with nothing but whitespace in it
Blank(s) == \A i \in 1..Len(s) : s[i] = " "

\* a non-blank SKU from its first to its last character that is not whitespace
Trimmed(s) ==
    LET idx == {i \in 1..Len(s) : s[i] # " "}
        first == CHOOSE i \in idx : \A j \in idx : i <= j
        last == CHOOSE i \in idx : \A j \in idx : j <= i
    IN SubSeq(s, first, last)

\* the SKU an item carries, empty when it has none
RawSku(item) == IF item.hasSku THEN item.Sku ELSE <<>>

\* of the whole list of n items: the items with a non-blank SKU in provider
\* order, each as its SKU (without surrounding whitespace) and its QtyOnHand
\* (0 when the item has none)
ExpectedPairs(n, pat) ==
    LET Pair(item) ==
            IF Blank(RawSku(item)) THEN <<>>
            ELSE <<Trimmed(RawSku(item)), IF item.hasQty THEN item.QtyOnHand ELSE 0>>
    IN SelectSeq([k \in 1..n |-> Pair(ItemAt(k, pat))], LAMBDA pair : pair # <<>>)

\* the start positions requested so far are 1, 1 + MAX_RESULTS, ... in this
\* order, and once the loop has ended with every answer a 200 they cover the list
C16_Pages ==
    /\ fetch.requests = [k \in 1..Len(fetch.requests) |-> 1 + (k - 1) * MAX_RESULTS]
    /\ (fetch.pc \in {"return", "done"} /\ ~fetch.failed) =>
           Len(fetch.requests) = (fetch.n \div MAX_RESULTS) + 1

\* with every answer a 200, what is returned is the expected list of pairs
C16_Returned ==
    (fetch.pc = "done" /\ ~fetch.failed) => fetch.returned = ExpectedPairs(fetch.n, fetch.pat)

\* C16: against a provider holding n items served in pages of at most
\* MAX_RESULTS, fetch_all_inventory_with_sku() terminates, requests the start
\* positions 1, 1 + MAX_RESULTS, 1 + 2 * MAX_RESULTS, ... without skipping or
\* repeating one, and, every request answered 200, returns exactly the
\* (SKU, QtyOnHand) pairs of the items with a non-blank SKU in provider order,
\* also when n is an exact multiple of MAX_RESULTS.
C16_FetchesAllPages ==
    /\ [](C16_Pages /\ C16_Returned)
    /\ []<>(fetch.pc # "wait") => (fetch.pc = "loop" ~> fetch.pc = "done")

C16_Witness ==
    /\ fetch.pc = "done"
    /\ ~fetch.failed
    /\ fetch.n = 2 * MAX_RESULTS
    /\ fetch.pat # 0
    /\ fetch.requests = <<1, 1 + MAX_RESULTS, 1 + 2 * MAX_RESULTS>>
    /\ Len(fetch.returned) > MAX_RESULTS
    /\ Len(fetch.returned) < fetch.n
    /\ fetch.returned = ExpectedPairs(fetch.n, fetch.pat)

----------------------------------------------------------------------------
(* Two unattended processes on one installation that was authorized before, *)
(* against an endpoint that rotates the refresh token on every refresh      *)

Procs2 == {"p1", "p2"}

\* an installation that was authorized before; no process runs yet
Init2 ==
    /\ AuthorizedFiles
    /\ InitProcs(Procs2)
    /\ fetch = NoFetch

\* an endpoint that accepts only the refresh token it issued last and answers
\* it with a new access token and a new refresh token
RotatingResponses(n, rt, valid) ==
    IF rt = valid THEN {Resp(200, n, n)} ELSE {Resp(400, None, None)}

RefreshRotating(p) ==
    RefreshResponseWith(p, RotatingResponses(issued + 1, local[p].req.refresh_token, validRT))

\* nobody is at the prompt: input() raises EOFError
AuthInputUnattended(p) == AuthInputWith(p, {Abandon})

Next2 ==
    \E p \in Procs2 :
        \/ Construct(p)
        \/ GetAccessToken(p)
        \/ LoadBundle(p)
        \/ RefreshRotating(p)
        \/ RotationWrite(p)
        \/ AuthInputUnattended(p)

Spec2 == Init2 /\ [][Next2]_vars

\* both processes have ended a call that started on the same intact bundle
BothEndedOnSameBundle ==
    /\ \A p \in DOMAIN pc : CallEnded(p) /\ hist[p].paste.kind # "url"
    /\ \A p, q \in DOMAIN pc : hist[p].start = hist[q].start
    /\ \A p \in DOMAIN pc :
         /\ hist[p].start.kind = "bundle"
         /\ hist[p].refreshReqs = 1

\* C19: after two unattended processes have both ended a get_access_token()
\* call made on the same valid bundle against a rotating endpoint, the bundle
\* file exists and holds the refresh token the endpoint accepts: the process
\* whose refresh was rejected has not deleted or overwritten what the other wrote.
C19_RejectedRefreshKeepsOthersBundle ==
    BothEndedOnSameBundle =>
        /\ tokenFile.kind = "bundle"
        /\ DecryptOk(keyFile, tokenFile.refresh_token)
        /\ Decrypt(keyFile, tokenFile.refresh_token) = validRT

====
